---- MODULE Spec2Model ----
(***************************************************************************)
(* splash: the chunk-assembly pipeline of main() and chunkWorker().        *)
(* One goroutine per worker, the reorder goroutine, the consumer loop of   *)
(* main, and the signal handler, interleaved at their synchronisation      *)
(* points (channel operations and cacheLock critical sections).            *)
(***************************************************************************)
EXTENDS Integers, Sequences, FiniteSets, TLC

\* ------------------------------------------------------------- bounds
\* value of the -workers flag
NumWorkers == 2
\* failed fetch or parse attempts the environment produces in one run
MaxFails == 1

\* ---------------------------------------------------- program constants
\* binary.Size(ChunkHeader{}): 4+4+4+4+16+8+1+20+1
ChunkHeaderSize == 62
\* rawChunkData[62:]
CacheSkip == 62
\* 1-based index of ChunkHeader.StoredAs in the serialised header
StoredAsIndex == 41

\* a path on disk: absent, or a file with its bytes
NoFile == [exists |-> FALSE, data |-> <<>>]
File(bytes) == [exists |-> TRUE, data |-> bytes]
NoJob == [ID |-> -1, Chunk |-> [GUID |-> "", FileSize |-> 0],
          Part |-> [Offset |-> [hi |-> 0, lo |-> 0], Size |-> [hi |-> 0, lo |-> 0]]]
NoReader == [data |-> <<>>, pos |-> 0]

\* --------------------------------------------------------- small helpers
Min(a, b) == IF a < b THEN a ELSE b

RECURSIVE SumSeq(_)
SumSeq(s) == IF s = <<>> THEN 0 ELSE Head(s) + SumSeq(Tail(s))

\* Go map assignment m[k] = v and delete(m, k)
MapPut(m, k, v) == [x \in DOMAIN m \cup {k} |-> IF x = k THEN v ELSE m[x]]
MapDel(m, k) == [x \in DOMAIN m \ {k} |-> m[x]]

\* ------------------------------------------------------ packed numbers
\* A packed string is a sequence of characters; the digits '0'..'9' are
\* the numbers 0..9, any other character is a number above 9.
IsDigit(c) == c \in 0..9

\* strconv.ParseUint(s, 10, 16) of a three-character string: err is set
\* when a character is not a decimal digit; three digits never exceed 16 bits
ParseUintOctal(s) == s[1] * 64 + s[2] * 8 + s[3]
ParseUint(s) == s[1] * 100 + s[2] * 10 + s[3]

ParseUintErr(s) == \E i \in 1..Len(s) : ~IsDigit(s[i])

\* the loop of readPackedData from index i (1-based) with the output so far.
\* packed[i:i+3] panics when fewer than three characters remain; a parse
\* error returns nil; byte(num) keeps the low eight bits.
RECURSIVE readPackedLoop(_, _, _)
readPackedLoop(packed, i, output) ==
    IF i > Len(packed) THEN [panic |-> FALSE, isNil |-> FALSE, bytes |-> output]
    ELSE IF i + 2 > Len(packed) THEN [panic |-> TRUE, isNil |-> FALSE, bytes |-> <<>>]
    ELSE IF ParseUintErr(SubSeq(packed, i, i + 2))
         THEN [panic |-> FALSE, isNil |-> TRUE, bytes |-> <<>>]
    ELSE readPackedLoop(packed, i + 3,
                        Append(output, ParseUint(SubSeq(packed, i, i + 2)) % 256))

\* readPackedData: .bytes is the returned slice (empty when nil)
readPackedData(packed) == readPackedLoop(packed, 1, <<>>)

\* A uint32 is held as its two 16-bit halves, [hi, lo], so that the full
\* 32-bit range and its wrap-around are exact.
U32Add(a, b) ==
    [hi |-> (a.hi + b.hi + ((a.lo + b.lo) \div 65536)) % 65536, lo |-> (a.lo + b.lo) % 65536]

\* uint32(n) of a non-negative int64
U32Of(n) == [hi |-> (n \div 65536) % 65536, lo |-> n % 65536]

\* int64(u)
Int64(u) == u.hi * 65536 + u.lo

\* binary.LittleEndian.Uint32
readPackedUint32(packed) ==
    LET b == readPackedData(packed).bytes
    IN  [hi |-> b[3] + b[4] * 256, lo |-> b[1] + b[2] * 256]

\* The encoding a manifest writer applies: each byte as three decimal digits.
RECURSIVE PackBytes(_)
PackBytes(bs) ==
    IF bs = <<>> THEN <<>>
    ELSE <<Head(bs) \div 100, (Head(bs) \div 10) % 10, Head(bs) % 10>> \o PackBytes(Tail(bs))

PackU32(n) ==
    PackBytes(<<n % 256, (n \div 256) % 256, (n \div 65536) % 256, (n \div 16777216) % 256>>)

\* ---------------------------------------------------------- digests
\* crypto/sha1 as a two-byte digest (a polynomial hash of the bytes).
RECURSIVE Sha1Acc(_, _)
Sha1Acc(bs, h) ==
    IF bs = <<>> THEN h ELSE Sha1Acc(Tail(bs), (h * 31 + Head(bs) + 1) % 65521)

Sha1(bs) == LET h == Sha1Acc(bs, 7) IN <<h \div 256, h % 256>>

\* ------------------------------------------------------------- zlib
\* compress/zlib as an invertible transformation: a magic byte, the
\* bytes shifted by one, and a trailing checksum.  120 is 0x78.
Deflate(p) ==
    <<120>> \o [i \in 1..Len(p) |-> (p[i] + 1) % 256] \o <<SumSeq(p) % 251>>

InflateOk(s) ==
    /\ Len(s) >= 2
    /\ s[1] = 120
    /\ LET body == [i \in 1..(Len(s) - 2) |-> (s[i + 1] + 255) % 256]
       IN  s[Len(s)] = SumSeq(body) % 251

Inflate(s) == [i \in 1..(Len(s) - 2) |-> (s[i + 1] + 255) % 256]

\* ------------------------------------------------ the CDN's chunk pool
Guids == {"A", "B"}

ChunkPayload(g) == IF g = "A" THEN <<10, 11, 12>> ELSE <<20, 21, 22>>

ChunkStoredAs(g) == IF g = "A" THEN 0 ELSE 1

\* the 62-byte header as it is on the wire (magic 0xB1FE3AA2 little-endian)
WireHeader(g) ==
    [i \in 1..ChunkHeaderSize |->
        IF i = 1 THEN 162 ELSE IF i = 2 THEN 58 ELSE IF i = 3 THEN 254 ELSE IF i = 4 THEN 177
        ELSE IF i = 5 THEN 2 ELSE IF i = 9 THEN 62
        ELSE IF i = StoredAsIndex THEN ChunkStoredAs(g)
        ELSE IF i = ChunkHeaderSize THEN 3 ELSE 0]

Wire(g) ==
    WireHeader(g) \o (IF ChunkStoredAs(g) = 1 THEN Deflate(ChunkPayload(g)) ELSE ChunkPayload(g))

\* a 200 response whose body is cut short
Truncated(g) == SubSeq(Wire(g), 1, 10)

\* ------------------------------------------------------------ manifests
\* ManifestFileChunkPart: Offset and Size are packed strings
MPart(g, off, size) == [GUID |-> g, Offset |-> PackU32(off), Size |-> PackU32(size)]

\* what the parts of a file denote: the slices of the chunk payloads, in order
RECURSIVE ExpectedContent(_)
ExpectedContent(parts) ==
    IF parts = <<>> THEN <<>>
    ELSE LET p == Head(parts)
             off == Int64(readPackedUint32(p.Offset))
             size == Int64(readPackedUint32(p.Size))
         IN  SubSeq(ChunkPayload(p.GUID), off + 1, off + size) \o ExpectedContent(Tail(parts))

MFile(name, parts) ==
    [FileName |-> name, FileHash |-> PackBytes(Sha1(ExpectedContent(parts))), FileChunkParts |-> parts]

PartsF == <<MPart("A", 1, 2), MPart("B", 0, 2), MPart("A", 0, 1)>>
PartsG == <<MPart("B", 1, 2)>>
PartsH == <<MPart("A", 2, 1)>>

ManifestIds == {"m1", "m2"}

\* the manifests the run can be given (readManifestFile / fetchManifest)
ManifestOf(id) ==
    IF id = "m1"
    THEN [BuildVersionString |-> "v1",
          FileManifestList |-> <<MFile("f", PartsF), MFile("g", PartsG)>>,
          ChunkFilesizeList |-> [g \in Guids |-> PackU32(Len(Wire(g)))]]
    ELSE [BuildVersionString |-> "v2",
          FileManifestList |-> <<MFile("h", PartsH)>>,
          ChunkFilesizeList |-> [g \in Guids |-> PackU32(Len(Wire(g)))]]

\* filepath.Join(installPath, <stripped build version>, file.FileName)
FullName(build, name) == <<build, name>>

FileKeys == {FullName("v1", "f"), FullName("v1", "g"), FullName("v2", "h")}

\* ---------------------------------------------------------- readers
\* NewByteCloser(data): a bytes.Reader at position 0
NewByteCloser(data) == [data |-> data, pos |-> 0]

\* mutant: the seek is absolute
SeekStart(r, offset) == [r EXCEPT !.pos = offset]

\* Seek(offset, io.SeekCurrent)
SeekCurrent(r, offset) == [r EXCEPT !.pos = @ + offset]

\* the bytes io.CopyN(dst, r, n) moves: n bytes, or fewer at end of data
CopyN(r, n) == SubSeq(r.data, r.pos + 1, Min(r.pos + n, Len(r.data)))

\* readChunkHeader: binary.Read of a ChunkHeader; fails on a short read
readChunkHeader(r) ==
    IF Len(r.data) - r.pos < ChunkHeaderSize
    THEN [err |-> TRUE, StoredAs |-> 0, reader |-> r]
    ELSE [err |-> FALSE, StoredAs |-> r.data[r.pos + StoredAsIndex],
          reader |-> [r EXCEPT !.pos = @ + ChunkHeaderSize]]

parseChunk(reader) ==
    LET h == readChunkHeader(reader)
        rest == SubSeq(h.reader.data, h.reader.pos + 1, Len(h.reader.data))
    IN  IF h.err THEN [err |-> TRUE, reader |-> NoReader, data |-> <<>>]
        ELSE IF h.StoredAs = 0 THEN [err |-> FALSE, reader |-> h.reader, data |-> <<>>]
        ELSE IF h.StoredAs = 1
        THEN IF InflateOk(rest)
             THEN [err |-> FALSE, reader |-> NewByteCloser(Inflate(rest)), data |-> Inflate(rest)]
             ELSE [err |-> TRUE, reader |-> NoReader, data |-> <<>>]
        ELSE [err |-> TRUE, reader |-> NoReader, data |-> <<>>]

\* ----------------------------------------------------------- checkFile
RECURSIVE TotalSize(_)
TotalSize(parts) ==
    IF parts = <<>> THEN U32Of(0)
    ELSE U32Add(readPackedUint32(Head(parts).Size), TotalSize(Tail(parts)))

\* the length of a hex file hash: two characters per byte of the digest
\* (40 for SHA-1; the digest of Sha1 has two bytes)
HexHashLen == 4

\* hex.EncodeToString: characters 0..15 stand for '0'..'9', 'a'..'f'
RECURSIVE HexEncode(_)
HexEncode(bs) ==
    IF bs = <<>> THEN <<>>
    ELSE <<Head(bs) \div 16, Head(bs) % 16>> \o HexEncode(Tail(bs))

\* "hash, _ = hex.DecodeString(s)": the bytes decoded before the first
\* character that is no hex digit
RECURSIVE HexDecode(_)
HexDecode(s) ==
    IF Len(s) < 2 \/ s[1] \notin 0..15 \/ s[2] \notin 0..15 THEN <<>>
    ELSE <<s[1] * 16 + s[2]>> \o HexDecode(Tail(Tail(s)))

\* "Parse expected hash"
ExpectedHash(file) ==
    IF Len(file.FileHash) = HexHashLen THEN HexDecode(file.FileHash)
    ELSE readPackedData(file.FileHash).bytes

\* the *os.File checkFile is given: fi.Size() as an int64 in 16-bit parts
\* (top: bits 32..47) and the SHA-1 of what io.Copy reads
OpenFile(content) ==
    [size |-> [top |-> 0, hi |-> (Len(content) \div 65536) % 65536, lo |-> Len(content) % 65536],
     sha1 |-> Sha1(content)]

\* mutant: a conversion that saturates instead of truncating
Uint32Saturated(size) ==
    IF size.top > 0 THEN [hi |-> 65535, lo |-> 65535] ELSE [hi |-> size.hi, lo |-> size.lo]

\* uint32(fi.Size())
Uint32OfSize(size) == [hi |-> size.hi, lo |-> size.lo]

\* checkFile on an open file f: equal is the value returned, hashed tells
\* whether the file was read by io.Copy(hasher, f)
checkFileResult(f, file) ==
    IF TotalSize(file.FileChunkParts) # Uint32OfSize(f.size)
    THEN [equal |-> FALSE, hashed |-> FALSE]
    ELSE [equal |-> f.sha1 = ExpectedHash(file), hashed |-> TRUE]

\* content: the bytes of the opened file
checkFile(content, file) == checkFileResult(OpenFile(content), file).equal

\* ------------------------------------------------------------- cache
\* chunkUsed without the eviction
chunkUsedKeepsEntry(st, guid) ==
    [count |-> [st.count EXCEPT ![guid] = @ - 1], cache |-> st.cache]

\* mutant: a release that decrements twice
chunkUsedTwice(st, guid) ==
    LET c == [st.count EXCEPT ![guid] = @ - 2]
    IN  [count |-> c,
         cache |-> IF c[guid] < 1 THEN MapDel(st.cache, guid) ELSE st.cache]

\* mutant: a release that evicts the entry whatever the count
chunkUsedEvictsAlways(st, guid) ==
    [count |-> [st.count EXCEPT ![guid] = @ - 1], cache |-> MapDel(st.cache, guid)]

\* The two maps as one value: [count |-> chunkParentCount, cache |-> chunkCache]
chunkUsed(st, guid) ==
    LET c == [st.count EXCEPT ![guid] = @ - 1]
    IN  [count |-> c,
         cache |-> IF c[guid] < 1 THEN MapDel(st.cache, guid) ELSE st.cache]

\* the pre-check releasing only the first part of the file
ReleaseFirstPart(st, parts) ==
    IF parts = <<>> THEN st ELSE chunkUsed(st, Head(parts).GUID)

\* for _, chunkPart := range file.FileChunkParts { chunkUsed(chunkPart.GUID) }
RECURSIVE ReleaseParts(_, _)
ReleaseParts(st, parts) ==
    IF parts = <<>> THEN st ELSE ReleaseParts(chunkUsed(st, Head(parts).GUID), Tail(parts))

\* the store keeping the 62-byte header of a raw chunk
StoreWithHeader(st, guid, chunkData, rawChunkData) ==
    IF st.count[guid] > 1
    THEN [st EXCEPT !.cache = MapPut(@, guid,
                IF Len(chunkData) > 0 THEN chunkData ELSE rawChunkData)]
    ELSE st

\* mutant: a fetched chunk is cached whatever its reference count
StoreAlways(st, guid, chunkData, rawChunkData) ==
    [st EXCEPT !.cache = MapPut(@, guid,
                IF Len(chunkData) > 0 THEN chunkData
                ELSE SubSeq(rawChunkData, CacheSkip + 1, Len(rawChunkData)))]

\* mutant: the entry is the body as downloaded, inflated or not
StoreRawAlways(st, guid, chunkData, rawChunkData) ==
    IF st.count[guid] > 1
    THEN [st EXCEPT !.cache = MapPut(@, guid, SubSeq(rawChunkData, CacheSkip + 1, Len(rawChunkData)))]
    ELSE st

\* mutant: a chunk is cached only above two references
StoreAboveTwo(st, guid, chunkData, rawChunkData) ==
    IF st.count[guid] > 2
    THEN [st EXCEPT !.cache = MapPut(@, guid,
                IF Len(chunkData) > 0 THEN chunkData
                ELSE SubSeq(rawChunkData, CacheSkip + 1, Len(rawChunkData)))]
    ELSE st

\* if chunkParentCount[guid] > 1 { chunkCache[guid] = chunkData or rawChunkData[62:] }
StoreInCache(st, guid, chunkData, rawChunkData) ==
    IF st.count[guid] > 1
    THEN [st EXCEPT !.cache = MapPut(@, guid,
                IF Len(chunkData) > 0 THEN chunkData
                ELSE SubSeq(rawChunkData, CacheSkip + 1, Len(rawChunkData)))]
    ELSE st

\* NewChunk
NewChunk(guid, fileSize) == [GUID |-> guid, FileSize |-> Int64(readPackedUint32(fileSize))]

\* ------------------------------------------------------ parseManifest
\* bytes.Reader: Len() is the number of unread bytes
ReaderLen(r) == IF r.pos >= Len(r.data) THEN 0 ELSE Len(r.data) - r.pos

\* reader.Read(buf): fills a prefix of buf with what is left and leaves the
\* rest of buf as it was
ReaderRead(r, buf) ==
    LET n == Min(Len(buf), ReaderLen(r))
    IN  [reader |-> [r EXCEPT !.pos = @ + n],
         buf |-> [i \in 1..Len(buf) |-> IF i <= n THEN r.data[r.pos + i] ELSE buf[i]]]

\* make([]byte, n)
MakeBytes(n) == [i \in 1..n |-> 0]

\* binary.LittleEndian.Uint32(buffer)
LittleEndianUint32(b) == [hi |-> b[3] + b[4] * 256, lo |-> b[1] + b[2] * 256]

\* 0x44BEC00C
ManifestMagic == [hi |-> 17598, lo |-> 49164]

\* hasher.Sum(nil): sha1.Size bytes, the two-byte digest then zeros
Sha1Sum(bs) == Sha1(bs) \o MakeBytes(18)

\* readString: a u32 size, then size bytes of which the last is dropped
readString(r) ==
    LET s == ReaderRead(r, MakeBytes(4))
        size == Int64(LittleEndianUint32(s.buf))
    IN  IF size = 0 THEN [reader |-> s.reader, str |-> <<>>]
        ELSE LET t == ReaderRead(s.reader, MakeBytes(size))
             IN  [reader |-> t.reader, str |-> SubSeq(t.buf, 1, size - 1)]

ManifestResult(stage, err, manifest) ==
    [panic |-> FALSE, stage |-> stage, err |-> err, manifest |-> manifest]

\* lines 231-250: the body up to the prerequisite array; buffer is the
\* four-byte scratch buffer as the header reads left it.  manifest.name is
\* BuildVersionString; the lists that follow are not decoded here.
parseManifestBody(decompressed, buffer) ==
    LET r0 == [data |-> decompressed, pos |-> 14]
        app == readString(r0)
        build == readString(app.reader)
        exe == readString(build.reader)
        cmd == readString(exe.reader)
        pre == ReaderRead(cmd.reader, buffer)
    IN  IF LittleEndianUint32(pre.buf) # [hi |-> 0, lo |-> 0]
        THEN ManifestResult("body", "fixme: read arrays", TRUE)
        ELSE ManifestResult("body", "", TRUE)

\* mutant: the header size field is not compared
HeaderSizeUnchecked(consumed, headerSize) == TRUE

\* reader.Size()-int64(reader.Len()) == int64(headerSize)
HeaderSizeOk(consumed, headerSize) == U32Of(consumed) = headerSize

\* mutant: the digest is not compared
ChecksumUnchecked(decompressed, checksum) == TRUE

\* bytes.Equal(hasher.Sum(nil), checksum)
ChecksumOk(decompressed, checksum) == Sha1Sum(decompressed) = checksum

\* zlib.NewReader fails on a bad stream header and returns a nil reader
ZlibHeaderOk(s) == Len(s) >= 2 /\ s[1] = 120

\* parseManifest(data): stage is the step that returned, manifest is
\* whether the returned *Manifest is non-nil
parseManifest(data) ==
    IF data = <<>> THEN [panic |-> TRUE, stage |-> "json", err |-> "", manifest |-> FALSE]
    ELSE IF data[1] = 123 THEN ManifestResult("json", "json", FALSE)
    ELSE
    LET r0 == [data |-> data, pos |-> 0]
        m == ReaderRead(r0, MakeBytes(4))
        hs == ReaderRead(m.reader, m.buf)
        us == ReaderRead(hs.reader, hs.buf)
        cs == ReaderRead(us.reader, us.buf)
        sum == ReaderRead(cs.reader, MakeBytes(20))
        fm == ReaderRead(sum.reader, <<0>>)
        ver == ReaderRead(fm.reader, cs.buf)
        headerSize == LittleEndianUint32(hs.buf)
        uncompressedSize == LittleEndianUint32(us.buf)
        compressedSize == LittleEndianUint32(cs.buf)
        format == fm.buf[1]
        reader == ver.reader
        rest == SubSeq(data, reader.pos + 1, Len(data))
    IN  IF LittleEndianUint32(m.buf) # ManifestMagic
        THEN ManifestResult("magic", "read invalid magic", FALSE)
        ELSE IF ~HeaderSizeOk(Len(data) - ReaderLen(reader), headerSize)
        THEN ManifestResult("header", "invalid header", FALSE)
        ELSE IF U32Of(ReaderLen(reader)) # compressedSize
        THEN ManifestResult("header", "invalid header", FALSE)
        ELSE IF format \notin {0, 1}
        THEN ManifestResult("format", "invalid format", FALSE)
        ELSE IF format = 1 /\ ~ZlibHeaderOk(rest)
        THEN [panic |-> TRUE, stage |-> "data", err |-> "", manifest |-> FALSE]
        ELSE
        LET decompressed ==
                IF format = 0
                THEN ReaderRead(reader, MakeBytes(Int64(uncompressedSize))).buf
                ELSE Inflate(rest)
        IN  IF U32Of(Len(decompressed)) # uncompressedSize
            THEN ManifestResult("data", "invalid data", FALSE)
            ELSE IF ~ChecksumOk(decompressed, sum.buf)
            THEN ManifestResult("checksum", "checksum mismatch", FALSE)
            ELSE parseManifestBody(decompressed, ver.buf)

\* ============================================================== state
VARIABLES
    manifests,          \* main: the loaded manifests, in load order
    fileFilter,         \* -files
    manifestFiles,      \* main: map full file name -> ManifestFile
    manifestChunks,     \* main: map guid -> Chunk
    checkedFiles,       \* main: keys of the files the pre-check accepted
    chunkCache,         \* map guid -> decompressed payload
    chunkParentCount,   \* map guid -> outstanding references
    killSignal,         \* set by the signal handler goroutine
    mainPc,             \* where main is
    pending,            \* keys of manifestFiles the file loop has not visited
    cur,                \* key of the file being assembled
    disk,               \* output files: full name -> File(bytes) or NoFile
    chunkDir,           \* chunk-dir: guid -> File(bytes) or NoFile
    jobs,               \* chan ChunkJob (buffered)
    jobsClosed,         \* close(jobs) was executed
    results,            \* chan ChunkJobResult (buffered)
    orderedResults,     \* chan ChunkJobResult (buffered)
    resultsBuffer,      \* reorder goroutine: map id -> result
    chunkJobs,          \* reorder goroutine: jobs not yet forwarded
    chunkPartCount,     \* len(file.FileChunkParts) of the current file
    consumed,           \* the consumer loop's i
    workers,            \* the chunkWorker goroutines of the current file
    fails,              \* failed attempts so far (bounded by MaxFails)
    received,           \* history: Job.ID of each result the consumer received
    fetches,            \* history: per guid, downloads that gave a usable body
    evictions,          \* history: per guid, times chunkUsed removed the cache entry
    released,           \* history: per guid, chunkUsed calls
    onlyDLChunks,       \* -chunks-only, as main read it
    skipIntegrityCheck, \* -skipcheck, as main read it
    chunkQueue,         \* chunks-only: chan Chunk (buffered)
    chunkWorkers,       \* chunks-only: the worker goroutines
    logged,             \* history: the error lines main wrote to the log
    hashed,             \* history: keys of the files the integrity check hashed
    unlockedCacheAccess,\* history: a worker touched chunkCache outside cacheLock
    pureOp,             \* function applied in isolation, "none" in a run of main
    pureIn,             \* its argument
    pureOut             \* its result

vars == <<manifests, fileFilter, manifestFiles, manifestChunks, checkedFiles, chunkCache,
          chunkParentCount, killSignal, mainPc, pending, cur, disk, chunkDir, jobs,
          jobsClosed, results, orderedResults, resultsBuffer, chunkJobs, chunkPartCount,
          consumed, workers, fails, received, fetches, evictions, released,
          onlyDLChunks, skipIntegrityCheck, chunkQueue, chunkWorkers, logged, hashed,
          unlockedCacheAccess, pureOp, pureIn, pureOut>>

\* state that only the chunks-only mode, the integrity check or an isolated
\* function application changes
auxVars == <<onlyDLChunks, skipIntegrityCheck, chunkQueue, chunkWorkers, hashed,
             pureOp, pureIn, pureOut>>

NoOutput == [none |-> TRUE]

Workers == 1..NumWorkers

IdleWorker == [pc |-> "idle", job |-> NoJob, reader |-> NoReader,
               rawChunkData |-> <<>>, chunkData |-> <<>>]

CacheState == [count |-> chunkParentCount, cache |-> chunkCache]

\* ------------------------------------------------- the run's inputs
ManifestLists == {<<"m1">>, <<"m1", "m2">>, <<"m1", "m1">>}

FileFilters == {{}, {"f"}}

\* what is on disk before the run: nothing, the right bytes, or other bytes
StaleContent == <<1, 2>>

InitialDisks ==
    {d \in [FileKeys -> {"absent", "match", "stale"}] :
        /\ d[FullName("v2", "h")] = "absent"
        /\ d[FullName("v1", "g")] # "stale"}

PartsOfKey(k) == IF k[2] = "f" THEN PartsF ELSE IF k[2] = "g" THEN PartsG ELSE PartsH

DiskOf(d) ==
    [k \in FileKeys |->
        IF d[k] = "absent" THEN NoFile
        ELSE IF d[k] = "match" THEN File(ExpectedContent(PartsOfKey(k)))
        ELSE File(StaleContent)]

InitialChunkDirs ==
    {[g \in Guids |-> NoFile],
     [g \in Guids |-> IF g = "A" THEN File(Wire("A")) ELSE NoFile],
     [g \in Guids |-> IF g = "B" THEN File(Wire("B")) ELSE NoFile],
     [g \in Guids |-> IF g = "B" THEN File(Truncated("B")) ELSE NoFile]}

Init ==
    /\ manifests \in ManifestLists
    /\ fileFilter \in FileFilters
    /\ \E d \in InitialDisks : disk = DiskOf(d)
    /\ chunkDir \in InitialChunkDirs
    /\ manifestFiles = <<>>
    /\ manifestChunks = <<>>
    /\ checkedFiles = {}
    /\ chunkCache = <<>>
    /\ chunkParentCount = [g \in Guids |-> 0]
    /\ killSignal = FALSE
    /\ mainPc = "ingest"
    /\ pending = {}
    /\ cur = <<>>
    /\ jobs = <<>>
    /\ jobsClosed = FALSE
    /\ results = <<>>
    /\ orderedResults = <<>>
    /\ resultsBuffer = <<>>
    /\ chunkJobs = <<>>
    /\ chunkPartCount = 0
    /\ consumed = 0
    /\ workers = [w \in Workers |-> [IdleWorker EXCEPT !.pc = "exit"]]
    /\ fails = 0
    /\ received = <<>>
    /\ fetches = [g \in Guids |-> 0]
    /\ evictions = [g \in Guids |-> 0]
    /\ released = [g \in Guids |-> 0]
    /\ onlyDLChunks = FALSE
    /\ skipIntegrityCheck = FALSE
    /\ chunkQueue = <<>>
    /\ chunkWorkers = [w \in Workers |-> [pc |-> "exit", job |-> NoJob.Chunk, chunkData |-> <<>>]]
    /\ logged = {}
    /\ hashed = {}
    /\ unlockedCacheAccess = FALSE
    /\ pureOp = "none"
    /\ pureIn = <<>>
    /\ pureOut = NoOutput

\* --------------------------------------------------- manifest ingestion
\* for _, c := range file.FileChunkParts { chunkParentCount[c.GUID]++ ... }
RECURSIVE AddChunks(_, _, _)
AddChunks(st, parts, manifest) ==
    IF parts = <<>> THEN st
    ELSE LET g == Head(parts).GUID
             st1 == [st EXCEPT !.count[g] = @ + 1,
                               !.chunks = IF g \in DOMAIN @ THEN @
                                          ELSE MapPut(@, g, NewChunk(g, manifest.ChunkFilesizeList[g]))]
         IN  AddChunks(st1, Tail(parts), manifest)

\* one iteration of "for _, file := range manifest.FileManifestList"
\* mutant: no file is filtered out
FilteredOutNever(name, filter) == FALSE

\* "if _, ok := fileFilter[file.FileName]; !ok && len(fileFilter) > 0 { continue }"
FilteredOut(name, filter) == name \notin filter /\ Cardinality(filter) > 0

AddFile(st, file, manifest, filter) ==
    IF FilteredOut(file.FileName, filter) THEN st
    ELSE LET full == FullName(manifest.BuildVersionString, file.FileName)
             st1 == [st EXCEPT !.files = MapPut(@, full, [file EXCEPT !.FileName = full])]
         IN  AddChunks(st1, file.FileChunkParts, manifest)

RECURSIVE AddFiles(_, _, _, _)
AddFiles(st, files, manifest, filter) ==
    IF files = <<>> THEN st
    ELSE AddFiles(AddFile(st, Head(files), manifest, filter), Tail(files), manifest, filter)

RECURSIVE AddManifests(_, _, _)
AddManifests(st, ms, filter) ==
    IF ms = <<>> THEN st
    ELSE AddManifests(AddFiles(st, ManifestOf(Head(ms)).FileManifestList, ManifestOf(Head(ms)), filter),
                      Tail(ms), filter)

\* main: "Parse manifests"
ParseManifests ==
    /\ mainPc = "ingest"
    /\ LET st == AddManifests([files |-> <<>>, chunks |-> <<>>, count |-> chunkParentCount],
                              manifests, fileFilter)
       IN  /\ manifestFiles' = st.files
           /\ manifestChunks' = st.chunks
           /\ chunkParentCount' = st.count
           /\ pending' = DOMAIN st.files
    /\ mainPc' = "loop"
    /\ UNCHANGED <<auxVars, logged, unlockedCacheAccess, manifests, fileFilter, checkedFiles, chunkCache, killSignal, cur, disk,
                   chunkDir, jobs, jobsClosed, results, orderedResults, resultsBuffer,
                   chunkJobs, chunkPartCount, consumed, workers, fails, received, fetches,
                   evictions, released>>

\* the signal handler goroutine: <-c; killSignal = true
Interrupt ==
    /\ mainPc \in {"loop", "assemble", "chunks"}
    /\ ~killSignal
    /\ killSignal' = TRUE
    /\ UNCHANGED <<auxVars, logged, unlockedCacheAccess, manifests, fileFilter, manifestFiles, manifestChunks, checkedFiles,
                   chunkCache, chunkParentCount, mainPc, pending, cur, disk, chunkDir, jobs,
                   jobsClosed, results, orderedResults, resultsBuffer, chunkJobs,
                   chunkPartCount, consumed, workers, fails, received, fetches, evictions,
                   released>>

\* ------------------------------------------------------- the file loop
\* history bookkeeping for a step that takes the cache state from a to b
Evicted(a, b) ==
    [g \in Guids |-> IF g \in DOMAIN a.cache /\ g \notin DOMAIN b.cache THEN 1 ELSE 0]

CountParts(parts, g) == Cardinality({i \in DOMAIN parts : parts[i].GUID = g})

\* "if f, err := os.Open(filePath); err == nil { equal, err := checkFile(f, file) ..."
PreCheckPasses(k) == disk[k].exists /\ checkFile(disk[k].data, manifestFiles[k])

\* chunkJobs[i] = ChunkJob{ID: i, Chunk: manifestChunks[GUID], Part: ...}
MakeJobs(file) ==
    [i \in 1..Len(file.FileChunkParts) |->
        [ID |-> i - 1,
         Chunk |-> manifestChunks[file.FileChunkParts[i].GUID],
         Part |-> [Offset |-> readPackedUint32(file.FileChunkParts[i].Offset),
                   Size |-> readPackedUint32(file.FileChunkParts[i].Size)]]]

\* the file loop without its killSignal check
LoopIgnoresInterrupt == TRUE

\* "if killSignal { return }" at the head of an iteration of the file loop
LoopContinues == ~killSignal

\* file loop, pre-check accepted the file on disk
PreCheckSkip(k) ==
    /\ mainPc = "loop"
    /\ LoopContinues
    /\ k \in pending
    /\ PreCheckPasses(k)
    /\ LET parts == manifestFiles[k].FileChunkParts
           st == ReleaseParts(CacheState, parts)
       IN  /\ chunkParentCount' = st.count
           /\ chunkCache' = st.cache
           /\ evictions' = [g \in Guids |-> evictions[g] + Evicted(CacheState, st)[g]]
           /\ released' = [g \in Guids |-> released[g] + CountParts(parts, g)]
    /\ checkedFiles' = checkedFiles \cup {k}
    /\ pending' = pending \ {k}
    /\ UNCHANGED <<auxVars, logged, unlockedCacheAccess, manifests, fileFilter, manifestFiles, manifestChunks, killSignal, mainPc,
                   cur, disk, chunkDir, jobs, jobsClosed, results, orderedResults,
                   resultsBuffer, chunkJobs, chunkPartCount, consumed, workers, fails,
                   received, fetches>>

\* file loop, os.Create fails: log and return from the closure
\* mutant: the failed os.Create ends the run
CreateFailsExits(k) ==
    /\ mainPc = "loop"
    /\ LoopContinues
    /\ k \in pending
    /\ ~PreCheckPasses(k)
    /\ mainPc' = "exited"
    /\ logged' = logged \cup {<<"create", k>>}
    /\ UNCHANGED <<auxVars, unlockedCacheAccess, manifests, fileFilter, manifestFiles,
                   manifestChunks, checkedFiles, chunkCache, chunkParentCount, killSignal,
                   pending, cur, disk, chunkDir, jobs, jobsClosed, results, orderedResults,
                   resultsBuffer, chunkJobs, chunkPartCount, consumed, workers, fails,
                   received, fetches, evictions, released>>

\* os.Create returns an error: the closure logs it and returns
CreateFails(k) ==
    /\ mainPc = "loop"
    /\ LoopContinues
    /\ k \in pending
    /\ ~PreCheckPasses(k)
    /\ pending' = pending \ {k}
    /\ logged' = logged \cup {<<"create", k>>}
    /\ UNCHANGED <<auxVars, unlockedCacheAccess, manifests, fileFilter, manifestFiles, manifestChunks, checkedFiles,
                   chunkCache, chunkParentCount, killSignal, mainPc, cur, disk, chunkDir,
                   jobs, jobsClosed, results, orderedResults, resultsBuffer, chunkJobs,
                   chunkPartCount, consumed, workers, fails, received, fetches, evictions,
                   released>>

\* file loop, os.Create succeeds: dispatch the jobs, start reorder goroutine and workers
BeginAssembly(k) ==
    /\ mainPc = "loop"
    /\ LoopContinues
    /\ k \in pending
    /\ ~PreCheckPasses(k)
    /\ pending' = pending \ {k}
    /\ cur' = k
    /\ disk' = [disk EXCEPT ![k] = File(<<>>)]
    /\ chunkPartCount' = Len(manifestFiles[k].FileChunkParts)
    /\ chunkJobs' = MakeJobs(manifestFiles[k])
    /\ jobs' = MakeJobs(manifestFiles[k])
    /\ jobsClosed' = FALSE
    /\ results' = <<>>
    /\ orderedResults' = <<>>
    /\ resultsBuffer' = <<>>
    /\ workers' = [w \in Workers |-> IdleWorker]
    /\ consumed' = 0
    /\ received' = <<>>
    /\ mainPc' = "assemble"
    /\ UNCHANGED <<auxVars, logged, unlockedCacheAccess, manifests, fileFilter, manifestFiles, manifestChunks, checkedFiles,
                   chunkCache, chunkParentCount, killSignal, chunkDir, fails, fetches,
                   evictions, released>>

\* "if killSignal { return }" at the head of an iteration: main returns, the process ends
ExitOnInterrupt ==
    /\ mainPc = "loop"
    /\ ~LoopContinues
    /\ pending # {}
    /\ mainPc' = "exited"
    /\ UNCHANGED <<auxVars, logged, unlockedCacheAccess, manifests, fileFilter, manifestFiles, manifestChunks, checkedFiles,
                   chunkCache, chunkParentCount, killSignal, pending, cur, disk, chunkDir,
                   jobs, jobsClosed, results, orderedResults, resultsBuffer, chunkJobs,
                   chunkPartCount, consumed, workers, fails, received, fetches, evictions,
                   released>>

\* the file loop has visited every file
FileLoopEnds ==
    /\ mainPc = "loop"
    /\ pending = {}
    /\ mainPc' = "verify"
    /\ UNCHANGED <<auxVars, logged, unlockedCacheAccess, manifests, fileFilter, manifestFiles, manifestChunks, checkedFiles,
                   chunkCache, chunkParentCount, killSignal, pending, cur, disk, chunkDir,
                   jobs, jobsClosed, results, orderedResults, resultsBuffer, chunkJobs,
                   chunkPartCount, consumed, workers, fails, received, fetches, evictions,
                   released>>

\* mutant: the verifier visits every file of the map
FilesToVerifyAll == DOMAIN manifestFiles

\* the files the integrity loop does not skip
FilesToVerify == DOMAIN manifestFiles \ checkedFiles

\* "if !skipIntegrityCheck { for k, file := range manifestFiles ... }": each
\* file that is not skipped is opened; an open error is logged; an opened
\* file is hashed by checkFile and a mismatch is logged.  Then main returns.
IntegrityCheck ==
    /\ mainPc = "verify"
    /\ mainPc' = "done"
    /\ hashed' = {k \in FilesToVerify : disk[k].exists}
    /\ logged' = logged
                  \cup {<<"open", k>> : k \in {x \in FilesToVerify : ~disk[x].exists}}
                  \cup {<<"corrupt", k>> : k \in {x \in FilesToVerify :
                            disk[x].exists /\ ~checkFile(disk[x].data, manifestFiles[x])}}
    /\ UNCHANGED <<onlyDLChunks, skipIntegrityCheck, chunkQueue, chunkWorkers, pureOp, pureIn,
                   pureOut, unlockedCacheAccess, manifests, fileFilter, manifestFiles,
                   manifestChunks, checkedFiles, chunkCache, chunkParentCount, killSignal,
                   pending, cur, disk, chunkDir, jobs, jobsClosed, results, orderedResults,
                   resultsBuffer, chunkJobs, chunkPartCount, consumed, workers, fails,
                   received, fetches, evictions, released>>

\* -skipcheck was given: main returns without opening any file
SkipIntegrityCheck ==
    /\ mainPc = "verify"
    /\ mainPc' = "done"
    /\ skipIntegrityCheck' = TRUE
    /\ UNCHANGED <<onlyDLChunks, chunkQueue, chunkWorkers, hashed, pureOp, pureIn, pureOut,
                   logged, unlockedCacheAccess, manifests, fileFilter, manifestFiles,
                   manifestChunks, checkedFiles, chunkCache, chunkParentCount, killSignal,
                   pending, cur, disk, chunkDir, jobs, jobsClosed, results, orderedResults,
                   resultsBuffer, chunkJobs, chunkPartCount, consumed, workers, fails,
                   received, fetches, evictions, released>>

\* ------------------------------------------------- reorder and consumer
\* the reorder goroutine forwarding whatever it has buffered
ForwardUnordered(st) ==
    IF DOMAIN st.buf # {}
    THEN LET id == CHOOSE x \in DOMAIN st.buf : TRUE
         IN  [buf |-> MapDel(st.buf, id),
              cj |-> IF st.cj = <<>> THEN st.cj ELSE Tail(st.cj),
              out |-> Append(st.out, st.buf[id])]
    ELSE st

\* mutant: the "goto loop" is missing, one result at most is forwarded per
\* received result
ForwardOne(st) ==
    IF Len(st.cj) > 0 /\ st.cj[1].ID \in DOMAIN st.buf
    THEN [buf |-> MapDel(st.buf, st.cj[1].ID),
          cj |-> Tail(st.cj),
          out |-> Append(st.out, st.buf[st.cj[1].ID])]
    ELSE st

\* the "loop:" label of the reorder goroutine, st = [buf, cj, out]
RECURSIVE Forward(_)
Forward(st) ==
    IF Len(st.cj) > 0 /\ st.cj[1].ID \in DOMAIN st.buf
    THEN Forward([buf |-> MapDel(st.buf, st.cj[1].ID),
                  cj |-> Tail(st.cj),
                  out |-> Append(st.out, st.buf[st.cj[1].ID])])
    ELSE st

\* reorder goroutine: one iteration of "for result := range results"
Reorder ==
    /\ mainPc = "assemble"
    /\ results # <<>>
    /\ LET result == Head(results)
           st == Forward([buf |-> MapPut(resultsBuffer, result.Job.ID, result),
                          cj |-> chunkJobs, out |-> orderedResults])
       IN  /\ resultsBuffer' = st.buf
           /\ chunkJobs' = st.cj
           /\ orderedResults' = st.out
    /\ results' = Tail(results)
    /\ UNCHANGED <<auxVars, logged, unlockedCacheAccess, manifests, fileFilter, manifestFiles, manifestChunks, checkedFiles,
                   chunkCache, chunkParentCount, killSignal, mainPc, pending, cur, disk,
                   chunkDir, jobs, jobsClosed, chunkPartCount, consumed, workers, fails,
                   received, fetches, evictions, released>>

\* the bytes one iteration of "Handle results" appends to outFile
WritePart(result) ==
    CopyN(SeekCurrent(result.Reader, Int64(result.Job.Part.Offset)), Int64(result.Job.Part.Size))

\* consumer loop of main: result := <-orderedResults; Seek; CopyN
\* result := <-orderedResults; Seek; io.CopyN; on error log and continue.
\* The failing io.CopyN is the one whose first write to outFile fails.
Consume ==
    /\ mainPc = "assemble"
    /\ consumed < chunkPartCount
    /\ orderedResults # <<>>
    /\ \/ /\ disk' = [disk EXCEPT ![cur].data = @ \o WritePart(Head(orderedResults))]
          /\ UNCHANGED <<logged, fails>>
       \/ /\ fails < MaxFails
          /\ fails' = fails + 1
          /\ logged' = logged \cup {<<"write", cur>>}
          /\ UNCHANGED disk
    /\ orderedResults' = Tail(orderedResults)
    /\ consumed' = consumed + 1
    /\ received' = Append(received, Head(orderedResults).Job.ID)
    /\ UNCHANGED <<auxVars, unlockedCacheAccess, manifests, fileFilter, manifestFiles,
                   manifestChunks, checkedFiles, chunkCache, chunkParentCount, killSignal,
                   mainPc, pending, cur, chunkDir, jobs, jobsClosed, results, resultsBuffer,
                   chunkJobs, chunkPartCount, workers, fetches, evictions, released>>

\* after the consumer loop: close(jobs); close(results); the closure returns
\* mutant: the consumer loop ends after its first result
FirstPartHandled == consumed >= 1

\* "for i := 0; i < chunkPartCount; i++" has run to its end
AllPartsHandled == consumed = chunkPartCount

\* close(jobs); close(results); the closure returns
FinishFile ==
    /\ mainPc = "assemble"
    /\ AllPartsHandled
    /\ jobsClosed' = TRUE
    /\ mainPc' = "loop"
    /\ UNCHANGED <<auxVars, logged, unlockedCacheAccess, manifests, fileFilter, manifestFiles, manifestChunks, checkedFiles,
                   chunkCache, chunkParentCount, killSignal, pending, cur, disk, chunkDir,
                   jobs, results, orderedResults, resultsBuffer, chunkJobs, chunkPartCount,
                   consumed, workers, fails, received, fetches, evictions, released>>

\* ------------------------------------------------------------ chunkWorker
\* the process is running: main has neither returned nor died
Alive == mainPc \in {"ingest", "loop", "assemble", "verify"}

WorkerUnchanged ==
    UNCHANGED <<auxVars, logged, manifests, fileFilter, manifestFiles, manifestChunks, checkedFiles,
                killSignal, pending, cur, disk, chunkDir, jobsClosed, orderedResults,
                resultsBuffer, chunkJobs, chunkPartCount, consumed, received>>

\* "for j := range jobs": receive the next job
WorkerReceive(w) ==
    /\ Alive
    /\ workers[w].pc = "idle"
    /\ jobs # <<>>
    /\ workers' = [workers EXCEPT ![w] = [IdleWorker EXCEPT !.pc = "lookup", !.job = Head(jobs)]]
    /\ jobs' = Tail(jobs)
    /\ UNCHANGED <<chunkCache, chunkParentCount, mainPc, results, fails, fetches, evictions,
                   released>>
    /\ WorkerUnchanged
    /\ UNCHANGED unlockedCacheAccess

\* "for j := range jobs" on a closed and drained channel: the goroutine returns
WorkerExit(w) ==
    /\ Alive
    /\ workers[w].pc = "idle"
    /\ jobs = <<>>
    /\ jobsClosed
    /\ workers' = [workers EXCEPT ![w].pc = "exit"]
    /\ UNCHANGED <<chunkCache, chunkParentCount, mainPc, jobs, results, fails, fetches,
                   evictions, released>>
    /\ WorkerUnchanged
    /\ UNCHANGED unlockedCacheAccess

\* cacheLock.Lock(); _, ok := chunkCache[guid]; cacheLock.Unlock()
WorkerLookup(w) ==
    /\ Alive
    /\ workers[w].pc = "lookup"
    /\ workers' = [workers EXCEPT ![w].pc =
                      IF workers[w].job.Chunk.GUID \in DOMAIN chunkCache THEN "hit" ELSE "fetch"]
    /\ UNCHANGED <<chunkCache, chunkParentCount, mainPc, jobs, results, fails, fetches,
                   evictions, released>>
    /\ WorkerUnchanged
    /\ UNCHANGED unlockedCacheAccess

\* chunkCache[guid] read without the lock; a missing key reads as nil
ReadCache(guid) == IF guid \in DOMAIN chunkCache THEN chunkCache[guid] ELSE <<>>

\* "chunkReader = NewByteCloser(chunkCache[j.Chunk.GUID])", outside the lock
WorkerHitRead(w) ==
    /\ Alive
    /\ workers[w].pc = "hit"
    /\ workers' = [workers EXCEPT ![w].pc = "used",
                                  ![w].reader = NewByteCloser(ReadCache(workers[w].job.Chunk.GUID))]
    /\ unlockedCacheAccess' = TRUE
    /\ UNCHANGED <<chunkCache, chunkParentCount, mainPc, jobs, results, fails, fetches,
                   evictions, released>>
    /\ WorkerUnchanged

\* worker v is about to write the chunkCache map inside its critical section
WritesCacheNext(v) ==
    \/ /\ workers[v].pc = "store"
       /\ chunkParentCount[workers[v].job.Chunk.GUID] > 1
    \/ /\ workers[v].pc = "used"
       /\ chunkParentCount[workers[v].job.Chunk.GUID] - 1 < 1
       /\ DOMAIN chunkCache # {}

\* the unlocked map read of WorkerHitRead overlapping another worker's map
\* write: the runtime ends the process ("concurrent map read and map write")
WorkerHitRace(w) ==
    /\ Alive
    /\ workers[w].pc = "hit"
    /\ \E v \in Workers \ {w} : WritesCacheNext(v)
    /\ mainPc' = "crashed"
    /\ unlockedCacheAccess' = TRUE
    /\ UNCHANGED <<chunkCache, chunkParentCount, jobs, results, workers, fails, fetches,
                   evictions, released>>
    /\ WorkerUnchanged

\* a failed attempt that drops its job
RequeueDrops(w) ==
    /\ workers' = [workers EXCEPT ![w] = IdleWorker]
    /\ UNCHANGED <<jobs, mainPc>>

\* a failed attempt that sends its job twice
RequeueTwice(w) ==
    /\ jobs' = Append(Append(jobs, workers[w].job), workers[w].job)
    /\ workers' = [workers EXCEPT ![w] = IdleWorker]
    /\ UNCHANGED mainPc

\* "jobs <- j; continue": blocks while the channel is full, panics once it is closed
Requeue(w) ==
    /\ Len(jobs) < chunkPartCount
    /\ IF jobsClosed
       THEN mainPc' = "crashed" /\ UNCHANGED <<jobs, workers>>
       ELSE /\ jobs' = Append(jobs, workers[w].job)
            /\ workers' = [workers EXCEPT ![w] = IdleWorker]
            /\ UNCHANGED mainPc

\* cache miss, chunk-dir holds a file named by the guid: os.Open, parseChunk
\* mutant: the chunk directory is never consulted
ChunkOnDiskNever(guid) == FALSE

\* os.Open(filepath.Join(chunkPath, guid)) succeeds
ChunkOnDisk(guid) == chunkDir[guid].exists

WorkerReadChunkDir(w) ==
    /\ Alive
    /\ workers[w].pc = "fetch"
    /\ ChunkOnDisk(workers[w].job.Chunk.GUID)
    /\ LET p == parseChunk(NewByteCloser(chunkDir[workers[w].job.Chunk.GUID].data))
       IN  IF p.err
           THEN /\ fails < MaxFails
                /\ fails' = fails + 1
                /\ Requeue(w)
           ELSE /\ workers' = [workers EXCEPT ![w].pc = "used", ![w].reader = p.reader]
                /\ UNCHANGED <<jobs, mainPc, fails>>
    /\ UNCHANGED <<chunkCache, chunkParentCount, results, fetches, evictions, released>>
    /\ WorkerUnchanged
    /\ UNCHANGED unlockedCacheAccess

\* Chunk.Download: a transport error or non-200, the chunk, or a cut body
DownloadOutcomes(guid) ==
    {[err |-> TRUE, data |-> <<>>],
     [err |-> FALSE, data |-> Wire(guid)],
     [err |-> FALSE, data |-> Truncated(guid)]}

\* cache miss, no chunk-dir file: Download, parseChunk
WorkerDownload(w) ==
    /\ Alive
    /\ workers[w].pc = "fetch"
    /\ ~ChunkOnDisk(workers[w].job.Chunk.GUID)
    /\ \E d \in DownloadOutcomes(workers[w].job.Chunk.GUID) :
         LET p == parseChunk(NewByteCloser(d.data))
         IN  IF d.err \/ p.err
             THEN /\ fails < MaxFails
                  /\ fails' = fails + 1
                  /\ Requeue(w)
                  /\ UNCHANGED fetches
             ELSE /\ workers' = [workers EXCEPT ![w].pc = "store", ![w].reader = p.reader,
                                                ![w].rawChunkData = d.data,
                                                ![w].chunkData = p.data]
                  /\ fetches' = [fetches EXCEPT ![workers[w].job.Chunk.GUID] = @ + 1]
                  /\ UNCHANGED <<jobs, mainPc, fails>>
    /\ UNCHANGED <<chunkCache, chunkParentCount, results, evictions, released>>
    /\ WorkerUnchanged
    /\ UNCHANGED unlockedCacheAccess

\* "Store in cache if needed later", under cacheLock
WorkerStore(w) ==
    /\ Alive
    /\ workers[w].pc = "store"
    /\ LET st == StoreInCache(CacheState, workers[w].job.Chunk.GUID,
                              workers[w].chunkData, workers[w].rawChunkData)
       IN  chunkCache' = st.cache
    /\ workers' = [workers EXCEPT ![w].pc = "used", ![w].rawChunkData = <<>>,
                                  ![w].chunkData = <<>>]
    /\ UNCHANGED <<chunkParentCount, mainPc, jobs, results, fails, fetches, evictions,
                   released>>
    /\ WorkerUnchanged
    /\ UNCHANGED unlockedCacheAccess

\* "Chunk was used once": chunkUsed under cacheLock
WorkerUsed(w) ==
    /\ Alive
    /\ workers[w].pc = "used"
    /\ LET g == workers[w].job.Chunk.GUID
           st == chunkUsed(CacheState, g)
       IN  /\ chunkParentCount' = st.count
           /\ chunkCache' = st.cache
           /\ evictions' = [x \in Guids |-> evictions[x] + Evicted(CacheState, st)[x]]
           /\ released' = [released EXCEPT ![g] = @ + 1]
    /\ workers' = [workers EXCEPT ![w].pc = "emit"]
    /\ UNCHANGED <<mainPc, jobs, results, fails, fetches>>
    /\ WorkerUnchanged
    /\ UNCHANGED unlockedCacheAccess

\* "results <- ChunkJobResult{Job: j, Reader: chunkReader}"
WorkerEmit(w) ==
    /\ Alive
    /\ workers[w].pc = "emit"
    /\ Len(results) < chunkPartCount
    /\ results' = Append(results, [Job |-> workers[w].job, Reader |-> workers[w].reader])
    /\ workers' = [workers EXCEPT ![w] = IdleWorker]
    /\ UNCHANGED <<chunkCache, chunkParentCount, mainPc, jobs, fails, fetches, evictions,
                   released>>
    /\ WorkerUnchanged
    /\ UNCHANGED unlockedCacheAccess

\* ---------------------------------------------------------------- system
\* ------------------------------------------------------- chunks-only mode
\* every order in which "for _, chunk := range manifestChunks" can visit the map
QueueOrders(chunks) ==
    {q \in [1..Cardinality(DOMAIN chunks) -> DOMAIN chunks] :
        \A i, j \in DOMAIN q : i # j => q[i] # q[j]}

ChunkWorkerUnchanged ==
    UNCHANGED <<onlyDLChunks, skipIntegrityCheck, hashed, pureOp, pureIn, pureOut, logged,
                unlockedCacheAccess, manifests, fileFilter, manifestFiles, manifestChunks,
                checkedFiles, chunkCache, chunkParentCount, killSignal, pending, cur, disk,
                jobs, jobsClosed, results, orderedResults, resultsBuffer, chunkJobs,
                chunkPartCount, consumed, workers, received, evictions, released>>

\* -chunks-only was given: main fills the job channel with every chunk,
\* closes it, and only then starts the workers
DownloadChunksOnly ==
    /\ mainPc = "ingest"
    /\ LET st == AddManifests([files |-> <<>>, chunks |-> <<>>, count |-> chunkParentCount],
                              manifests, fileFilter)
       IN  /\ manifestFiles' = st.files
           /\ manifestChunks' = st.chunks
           /\ chunkParentCount' = st.count
           /\ \E q \in QueueOrders(st.chunks) :
                 chunkQueue' = [i \in DOMAIN q |-> st.chunks[q[i]]]
    /\ onlyDLChunks' = TRUE
    /\ chunkWorkers' = [w \in Workers |-> [pc |-> "idle", job |-> NoJob.Chunk, chunkData |-> <<>>]]
    /\ mainPc' = "chunks"
    /\ UNCHANGED <<skipIntegrityCheck, hashed, pureOp, pureIn, pureOut, logged,
                   unlockedCacheAccess, manifests, fileFilter, checkedFiles, chunkCache,
                   killSignal, pending, cur, disk, chunkDir, jobs, jobsClosed, results,
                   orderedResults, resultsBuffer, chunkJobs, chunkPartCount, consumed, workers,
                   fails, received, fetches, evictions, released>>

\* mutant: any file of that name counts as present
ChunkPresentAnySize(j) == chunkDir[j.GUID].exists

\* os.Stat(filePath) succeeds and fi.Size() == j.FileSize
ChunkPresent(j) == chunkDir[j.GUID].exists /\ Len(chunkDir[j.GUID].data) = j.FileSize

\* "for j := range jobs": the loop ends when the closed channel is drained;
\* a received job is dropped on killSignal, skipped when the chunk is
\* present, and otherwise downloaded
ChunkOnlyReceive(w) ==
    /\ mainPc = "chunks"
    /\ chunkWorkers[w].pc = "idle"
    /\ IF chunkQueue = <<>>
       THEN /\ chunkWorkers' = [chunkWorkers EXCEPT ![w].pc = "exit"]
            /\ UNCHANGED chunkQueue
       ELSE /\ chunkQueue' = Tail(chunkQueue)
            /\ chunkWorkers' =
                  IF killSignal THEN [chunkWorkers EXCEPT ![w].pc = "exit"]
                  ELSE IF ChunkPresent(Head(chunkQueue)) THEN chunkWorkers
                  ELSE [chunkWorkers EXCEPT ![w].pc = "fetch", ![w].job = Head(chunkQueue)]
    /\ UNCHANGED <<mainPc, chunkDir, fails, fetches>>
    /\ ChunkWorkerUnchanged

\* "jobs <- j" of the chunks-only worker: the channel was closed before the
\* workers started, so the send panics and the process ends
ChunkOnlyRequeue(w) ==
    /\ mainPc' = "crashed"
    /\ UNCHANGED <<chunkQueue, chunkWorkers>>

\* j.Download(...)
ChunkOnlyDownload(w) ==
    /\ mainPc = "chunks"
    /\ chunkWorkers[w].pc = "fetch"
    /\ \E o \in DownloadOutcomes(chunkWorkers[w].job.GUID) :
          IF o.err
          THEN /\ fails < MaxFails
               /\ fails' = fails + 1
               /\ ChunkOnlyRequeue(w)
               /\ UNCHANGED fetches
          ELSE /\ chunkWorkers' = [chunkWorkers EXCEPT ![w].pc = "write", ![w].chunkData = o.data]
               /\ fetches' = [fetches EXCEPT ![chunkWorkers[w].job.GUID] = @ + 1]
               /\ UNCHANGED <<mainPc, chunkQueue, fails>>
    /\ UNCHANGED chunkDir
    /\ ChunkWorkerUnchanged

\* ioutil.WriteFile(filePath, chunkData, 0644): a failing write leaves the
\* path as it was or leaves an empty file behind
ChunkOnlyWrite(w) ==
    /\ mainPc = "chunks"
    /\ chunkWorkers[w].pc = "write"
    /\ \/ /\ chunkDir' = [chunkDir EXCEPT ![chunkWorkers[w].job.GUID] = File(chunkWorkers[w].chunkData)]
          /\ chunkWorkers' = [chunkWorkers EXCEPT ![w] = [pc |-> "idle", job |-> NoJob.Chunk,
                                                          chunkData |-> <<>>]]
          /\ UNCHANGED <<mainPc, chunkQueue, fails>>
       \/ /\ fails < MaxFails
          /\ fails' = fails + 1
          /\ chunkDir' \in {chunkDir, [chunkDir EXCEPT ![chunkWorkers[w].job.GUID] = File(<<>>)]}
          /\ ChunkOnlyRequeue(w)
    /\ UNCHANGED fetches
    /\ ChunkWorkerUnchanged

\* wg.Wait(); os.Exit(0)
ChunksOnlyDone ==
    /\ mainPc = "chunks"
    /\ \A w \in Workers : chunkWorkers[w].pc = "exit"
    /\ mainPc' = "exited"
    /\ UNCHANGED <<chunkQueue, chunkWorkers, chunkDir, fails, fetches>>
    /\ ChunkWorkerUnchanged

Next ==
    \/ ParseManifests
    \/ DownloadChunksOnly
    \/ Interrupt
    \/ \E k \in FileKeys : PreCheckSkip(k)
    \/ \E k \in FileKeys : CreateFails(k)
    \/ \E k \in FileKeys : BeginAssembly(k)
    \/ ExitOnInterrupt
    \/ FileLoopEnds
    \/ IntegrityCheck
    \/ SkipIntegrityCheck
    \/ Reorder
    \/ Consume
    \/ FinishFile
    \/ \E w \in Workers : WorkerReceive(w)
    \/ \E w \in Workers : WorkerExit(w)
    \/ \E w \in Workers : WorkerLookup(w)
    \/ \E w \in Workers : WorkerHitRead(w)
    \/ \E w \in Workers : WorkerHitRace(w)
    \/ \E w \in Workers : WorkerReadChunkDir(w)
    \/ \E w \in Workers : WorkerDownload(w)
    \/ \E w \in Workers : WorkerStore(w)
    \/ \E w \in Workers : WorkerUsed(w)
    \/ \E w \in Workers : WorkerEmit(w)
    \/ \E w \in Workers : ChunkOnlyReceive(w)
    \/ \E w \in Workers : ChunkOnlyDownload(w)
    \/ \E w \in Workers : ChunkOnlyWrite(w)
    \/ ChunksOnlyDone

Spec == Init /\ [][Next]_vars

\* ------------------------------------------------ runs under fair scheduling
\* The Go scheduler runs every runnable goroutine again and again: each
\* step of a worker, of the reorder goroutine and of main's consumer loop
\* that stays enabled is eventually taken.
Fairness ==
    /\ WF_vars(Reorder)
    /\ WF_vars(Consume)
    /\ WF_vars(FinishFile)
    /\ \A w \in Workers :
         /\ WF_vars(WorkerReceive(w))
         /\ WF_vars(WorkerLookup(w))
         /\ WF_vars(WorkerHitRead(w))
         /\ WF_vars(WorkerReadChunkDir(w))
         /\ WF_vars(WorkerDownload(w))
         /\ WF_vars(WorkerStore(w))
         /\ WF_vars(WorkerUsed(w))
         /\ WF_vars(WorkerEmit(w))
         /\ WF_vars(WorkerExit(w))

\* runs of one manifest in which every chunk can be obtained: no file of
\* the chunk directory is one that never parses
InitFair ==
    /\ Init
    /\ manifests = <<"m1">>
    /\ \A g \in Guids : chunkDir[g] # File(Truncated(g))

SpecFair == InitFair /\ [][Next]_vars /\ Fairness

\* ------------------------------------- functions applied in isolation
\* longest packed string and longest byte sequence tried
MaxPackedLen == 4
MaxBytesLen == 2

\* characters of a packed string: digits, and 10 for a character that is not one
PackedChars == {0, 2, 5, 9, 10}

SampleBytes == {0, 9, 10, 99, 100, 255}

SeqsUpTo(S, n) == UNION {[1..m -> S] : m \in 0..n}

\* binary manifests: a header written field by field, then the stored body
LittleEndianBytes(n) == <<n % 256, (n \div 256) % 256, (n \div 65536) % 256, 0>>

ManifestBuffer(magicOk, headerSize, uncompressedSize, compressedSize, checksum, storedAs, stored) ==
    (IF magicOk THEN <<12, 192, 190, 68>> ELSE <<12, 192, 190, 69>>)
    \o LittleEndianBytes(headerSize) \o LittleEndianBytes(uncompressedSize)
    \o LittleEndianBytes(compressedSize) \o checksum \o <<storedAs>> \o LittleEndianBytes(0)
    \o stored

\* bodies: no prerequisite array, a prerequisite array, and an empty body
ManifestBodies == {MakeBytes(34), MakeBytes(30) \o <<1, 0, 0, 0>>, <<>>}

\* what a format stores for a body; format 3 stands for format 1 with a
\* body that is not a zlib stream
StoredBody(body, kind) == IF kind = 1 THEN Deflate(body) ELSE body

ManifestBuffers ==
    {ManifestBuffer(magicOk, 41 - dh, Len(body) + du, Len(StoredBody(body, kind)) + dc,
                    IF sumOk THEN Sha1Sum(body) ELSE MakeBytes(20),
                    IF kind = 3 THEN 1 ELSE kind, StoredBody(body, kind)) :
        magicOk \in BOOLEAN, dh \in {0, 1}, du \in {0, 1}, dc \in {0, 1}, sumOk \in BOOLEAN,
        kind \in {0, 1, 2, 3}, body \in ManifestBodies}
    \cup {<<>>, <<123, 125>>}
    \cup {SubSeq(ManifestBuffer(TRUE, n, 0, 0, MakeBytes(20), 0, <<>>), 1, n) : n \in {4, 8, 16, 36}}

\* checkFile inputs: part sizes whose sum wraps, on-disk sizes up to 2^33,
\* the digest of the content, the expected digest and the form of file_hash
MaxPartsLen == 2

SampleSizes ==
    {[hi |-> 0, lo |-> 1], [hi |-> 0, lo |-> 3], [hi |-> 32768, lo |-> 0],
     [hi |-> 65535, lo |-> 65535]}

CheckFileInputs ==
    {[sizes |-> s, size |-> [top |-> t, hi |-> h, lo |-> l], sha1 |-> d,
      digest |-> <<1, 2>>, hex |-> x] :
        s \in SeqsUpTo(SampleSizes, MaxPartsLen), t \in {0, 1}, h \in {0, 1, 65535},
        l \in {0, 1, 2, 4}, d \in {<<1, 2>>, <<3, 4>>}, x \in BOOLEAN}

\* the packed form of a uint32
PackU32Halves(u) ==
    PackBytes(<<u.lo % 256, u.lo \div 256, u.hi % 256, u.hi \div 256>>)

\* the ManifestFile of a checkFile input
CheckFileManifest(in) ==
    [FileName |-> "x",
     FileHash |-> IF in.hex THEN HexEncode(in.digest) ELSE PackBytes(in.digest),
     FileChunkParts |-> [i \in DOMAIN in.sizes |->
                           [GUID |-> "A", Offset |-> PackU32(0), Size |-> PackU32Halves(in.sizes[i])]]]

PureInputs(op) ==
    IF op = "readPackedData" THEN SeqsUpTo(PackedChars, MaxPackedLen)
    ELSE IF op = "pack" THEN SeqsUpTo(SampleBytes, MaxBytesLen)
    ELSE IF op = "checkFile" THEN CheckFileInputs
    ELSE ManifestBuffers

InitPure ==
    /\ pureOp \in {"readPackedData", "pack", "parseManifest", "checkFile"}
    /\ pureIn \in PureInputs(pureOp)
    /\ pureOut = NoOutput
    /\ mainPc = "pure"
    /\ manifests = <<>>
    /\ fileFilter = {}
    /\ disk = [k \in FileKeys |-> NoFile]
    /\ chunkDir = [g \in Guids |-> NoFile]
    /\ manifestFiles = <<>>
    /\ manifestChunks = <<>>
    /\ checkedFiles = {}
    /\ chunkCache = <<>>
    /\ chunkParentCount = [g \in Guids |-> 0]
    /\ killSignal = FALSE
    /\ pending = {}
    /\ cur = <<>>
    /\ jobs = <<>>
    /\ jobsClosed = FALSE
    /\ results = <<>>
    /\ orderedResults = <<>>
    /\ resultsBuffer = <<>>
    /\ chunkJobs = <<>>
    /\ chunkPartCount = 0
    /\ consumed = 0
    /\ workers = [w \in Workers |-> [IdleWorker EXCEPT !.pc = "exit"]]
    /\ fails = 0
    /\ received = <<>>
    /\ fetches = [g \in Guids |-> 0]
    /\ evictions = [g \in Guids |-> 0]
    /\ released = [g \in Guids |-> 0]
    /\ onlyDLChunks = FALSE
    /\ skipIntegrityCheck = FALSE
    /\ chunkQueue = <<>>
    /\ chunkWorkers = [w \in Workers |-> [pc |-> "exit", job |-> NoJob.Chunk, chunkData |-> <<>>]]
    /\ logged = {}
    /\ hashed = {}
    /\ unlockedCacheAccess = FALSE

PureUnchanged ==
    UNCHANGED <<pureOp, pureIn, onlyDLChunks, skipIntegrityCheck, chunkQueue, chunkWorkers,
                logged, hashed, unlockedCacheAccess, manifests, fileFilter, manifestFiles,
                manifestChunks, checkedFiles, chunkCache, chunkParentCount, killSignal, mainPc,
                pending, cur, disk, chunkDir, jobs, jobsClosed, results, orderedResults,
                resultsBuffer, chunkJobs, chunkPartCount, consumed, workers, fails, received,
                fetches, evictions, released>>

\* readPackedData(pureIn)
ApplyReadPackedData ==
    /\ mainPc = "pure" /\ pureOp = "readPackedData" /\ pureOut = NoOutput
    /\ pureOut' = readPackedData(pureIn)
    /\ PureUnchanged

\* readPackedData of the packed form of the bytes pureIn
ApplyPackThenRead ==
    /\ mainPc = "pure" /\ pureOp = "pack" /\ pureOut = NoOutput
    /\ pureOut' = readPackedData(PackBytes(pureIn))
    /\ PureUnchanged

\* parseManifest(pureIn)
ApplyParseManifest ==
    /\ mainPc = "pure" /\ pureOp = "parseManifest" /\ pureOut = NoOutput
    /\ pureOut' = parseManifest(pureIn)
    /\ PureUnchanged

\* checkFile(f, file) on the open file and the manifest entry of pureIn
ApplyCheckFile ==
    /\ mainPc = "pure" /\ pureOp = "checkFile" /\ pureOut = NoOutput
    /\ pureOut' = checkFileResult([size |-> pureIn.size, sha1 |-> pureIn.sha1],
                                  CheckFileManifest(pureIn))
    /\ PureUnchanged

NextPure == ApplyReadPackedData \/ ApplyPackThenRead \/ ApplyParseManifest \/ ApplyCheckFile

SpecPure == InitPure /\ [][NextPure]_vars

\* ================================================================ claims
\* jobs a worker holds, and results already emitted, for the current file
HeldJobs == Cardinality({w \in Workers : workers[w].pc \notin {"idle", "exit"}})

EmittedResults ==
    Len(results) + Cardinality(DOMAIN resultsBuffer) + Len(orderedResults) + consumed

\* the model keeps the workers of one file only: when main is back in the
\* file loop the workers of the file just closed hold nothing
WorkersQuiescentBetweenFiles ==
    mainPc \in {"loop", "verify", "exited"} => \A w \in Workers : workers[w].pc \in {"idle", "exit"}

\* C1: the consumer receives the results of one file with Job.ID 0, 1, 2, ...
\* in ascending order, each id once, whatever the completion order and the
\* number of requeued attempts.
C1_AscendingDelivery ==
    /\ Len(received) <= chunkPartCount
    /\ \A i \in 1..Len(received) : received[i] = i - 1

C1_Witness ==
    /\ received = <<0>>
    /\ 2 \in DOMAIN resultsBuffer
    /\ fails > 0

\* C2: when the consumer has written every part of a file, the file holds
\* the concatenation, in parts order, of the payload slices
\* [offset, offset+size) of the parts' chunks.
C2_AssembledBytes ==
    (mainPc = "assemble" /\ consumed = chunkPartCount /\ <<"write", cur>> \notin logged)
        => disk[cur].data = ExpectedContent(manifestFiles[cur].FileChunkParts)

C2_Witness ==
    /\ mainPc = "assemble"
    /\ consumed = chunkPartCount
    /\ chunkPartCount = 3
    /\ fetches["A"] = 1
    /\ ~chunkDir["A"].exists
    /\ chunkDir["B"].exists
    /\ fails > 0

\* C3: after a full run without interrupt the cache is empty and every
\* refcount is zero.
C3_RefcountBalance ==
    (mainPc = "verify" /\ ~killSignal)
        => /\ DOMAIN chunkCache = {}
           /\ \A g \in Guids : chunkParentCount[g] = 0

\* C4: the cache holds no entry for a guid whose refcount is below 1.
C4_NoEntryBelowOne ==
    \A g \in DOMAIN chunkCache : chunkParentCount[g] >= 1

C4_Witness ==
    /\ evictions["A"] >= 1
    /\ "A" \notin DOMAIN chunkCache
    /\ chunkParentCount["A"] < 1
    /\ "B" \in DOMAIN chunkCache

\* C5: a chunk is downloaded and parsed at most once unless its cache
\* entry was evicted in between.
C5_AtMostOneFetch ==
    \A g \in Guids : fetches[g] <= 1 + evictions[g]

\* C6: a step that visits a file whose copy on disk checkFile accepts
\* dispatches nothing, starts no worker, leaves the disk alone, decrements
\* each chunk's refcount once per part of the file and records the file in
\* checkedFiles.
C6_PreCheckFrame ==
    [][\A k \in FileKeys :
          (/\ mainPc = "loop"
           /\ k \in pending
           /\ k \notin pending'
           /\ disk[k].exists
           /\ checkFile(disk[k].data, manifestFiles[k]))
          => /\ jobs' = jobs
             /\ results' = results
             /\ workers' = workers
             /\ mainPc' = "loop"
             /\ disk' = disk
             /\ fetches' = fetches
             /\ chunkParentCount' =
                  [g \in Guids |-> chunkParentCount[g]
                                     - CountParts(manifestFiles[k].FileChunkParts, g)]
             /\ checkedFiles' = checkedFiles \cup {k}]_vars

C6_Witness ==
    /\ FullName("v1", "f") \in checkedFiles
    /\ released["A"] = 2
    /\ disk[FullName("v1", "f")] = File(ExpectedContent(PartsF))

\* C7: a worker whose fetch or parse fails sends the same job back on
\* jobs and is ready for the next job; the step emits no result, leaves
\* cache, refcounts and the output file untouched.
C7_FailedAttemptRequeues ==
    [][\A w \in Workers :
          (workers[w].pc = "fetch" /\ workers'[w].pc \notin {"fetch", "store", "used"})
          => /\ workers'[w].pc = "idle"
             /\ jobs' = Append(jobs, workers[w].job)
             /\ results' = results
             /\ chunkCache' = chunkCache
             /\ chunkParentCount' = chunkParentCount
             /\ released' = released
             /\ disk' = disk]_vars

C7_Witness ==
    /\ fails > 0
    /\ \E i \in 1..Len(jobs) : \E j \in 1..Len(jobs) : i < j /\ jobs[i].ID > jobs[j].ID

\* C8: queued jobs + jobs held by workers + emitted results = partCount,
\* so a worker holding a job always finds a free slot in jobs.
C8_RequeueNeverBlocks ==
    /\ Len(jobs) + HeldJobs + EmittedResults = chunkPartCount
    /\ \A w \in Workers : workers[w].pc = "fetch" => Len(jobs) < chunkPartCount

C8_Witness ==
    /\ fails > 0
    /\ chunkPartCount = 3
    /\ Len(jobs) = 3
    /\ jobs[3].ID = 0

\* C9: once killSignal is set no chunkWorker takes a further job.
C9_NoJobAfterInterrupt ==
    [][killSignal =>
          \A w \in Workers : ~(workers[w].pc = "idle" /\ workers'[w].pc = "lookup")]_vars

\* C10: once killSignal is set the driver visits no further file: no
\* pre-check release, no file creation, no dispatch.
C10_NoFileAfterInterrupt ==
    [][killSignal =>
          /\ pending' = pending
          /\ checkedFiles' = checkedFiles
          /\ mainPc = "loop" =>
                /\ mainPc' # "assemble"
                /\ disk' = disk
                /\ jobs' = jobs
                /\ chunkParentCount' = chunkParentCount]_vars

C10_Witness ==
    /\ mainPc = "exited"
    /\ killSignal
    /\ pending # {}
    /\ consumed > 0

\* C11: a chunkWorker reads and writes chunkCache and chunkParentCount only
\* while it holds cacheLock; on a hit the cached bytes are looked up and
\* the reader is built inside the critical section.
C11_CacheAccessUnderLock == ~unlockedCacheAccess

\* C12: in chunks-only mode a failed download or a failed write puts the
\* chunk back on the queue and the run goes on.
C12_ChunkOnlyFailureRequeues ==
    [][\A w \in Workers :
          (mainPc = "chunks" /\ chunkWorkers[w].pc \in {"fetch", "write"} /\ fails' = fails + 1)
             => /\ mainPc' = "chunks"
                /\ chunkQueue' = Append(chunkQueue, chunkWorkers[w].job)]_vars

\* C13: the step on which os.Create fails for a file dispatches no job,
\* starts no worker, writes nothing, and leaves the driver in the file loop
\* with the other unvisited files still to visit.
C13_CreateFailureSkipsFile ==
    [][\A k \in FileKeys :
          (<<"create", k>> \in logged' /\ <<"create", k>> \notin logged)
             => /\ mainPc = "loop" /\ mainPc' = "loop"
                /\ pending' = pending \ {k}
                /\ jobs' = jobs /\ results' = results /\ workers' = workers
                /\ disk' = disk /\ fetches' = fetches /\ cur' = cur
                /\ killSignal' = killSignal]_vars

C13_Witness ==
    /\ <<"create", FullName("v1", "f")>> \in logged
    /\ mainPc = "assemble"
    /\ cur = FullName("v1", "g")
    /\ consumed = chunkPartCount
    /\ disk[cur].data = ExpectedContent(PartsG)
    /\ fetches["B"] = 1

\* C14: after an io.CopyN error on the current file no later part is
\* written to that file.
C14_WriteErrorAbortsFile ==
    [][(mainPc = "assemble" /\ <<"write", cur>> \in logged /\ mainPc' = "assemble")
          => disk'[cur] = disk[cur]]_vars

SharedChunkRun ==
    /\ manifests = <<"m1">>
    /\ fileFilter = {}
    /\ ~chunkDir["B"].exists
    /\ checkedFiles = {}
    /\ \A k \in FileKeys : <<"create", k>> \notin logged

\* C16: while the second of the two files is being assembled, the shared
\* chunk has been downloaded once, by the first file; its payload is in
\* the cache until the second file's part has used it, and is then gone.
C16_SharedChunkServedFromCache ==
    (SharedChunkRun /\ mainPc = "assemble" /\ pending = {}) =>
        /\ fetches["B"] = 1
        /\ released["B"] < 2 =>
              "B" \in DOMAIN chunkCache /\ chunkCache["B"] = ChunkPayload("B")
        /\ released["B"] = 2 => "B" \notin DOMAIN chunkCache /\ evictions["B"] = 1

C16_Witness ==
    /\ SharedChunkRun
    /\ mainPc = "assemble"
    /\ pending = {}
    /\ consumed = chunkPartCount
    /\ released["B"] = 2
    /\ evictions["B"] = 1
    /\ fetches["B"] = 1
    /\ disk[cur].data = ExpectedContent(manifestFiles[cur].FileChunkParts)

\* C19: in chunks-only mode a worker that takes a chunk whose file exists
\* in the chunk directory with exactly the chunk's file size leaves it
\* alone; otherwise it goes on to download it, and the only write to the
\* chunk directory is the downloaded body, verbatim.
C19_PresentChunkSkipped ==
    [][/\ (mainPc = "chunks" /\ ~killSignal /\ chunkQueue # <<>> /\ chunkQueue' = Tail(chunkQueue))
          => LET j == Head(chunkQueue)
             IN  IF chunkDir[j.GUID].exists /\ Len(chunkDir[j.GUID].data) = j.FileSize
                 THEN chunkWorkers' = chunkWorkers /\ chunkDir' = chunkDir /\ fetches' = fetches
                 ELSE \E w \in Workers : /\ chunkWorkers[w].pc = "idle"
                                          /\ chunkWorkers'[w].pc = "fetch"
                                          /\ chunkWorkers'[w].job = j
       /\ \A w \in Workers :
            (chunkWorkers[w].pc = "fetch" /\ chunkWorkers'[w].pc = "write")
               => chunkWorkers'[w].chunkData \in {Wire(chunkWorkers[w].job.GUID),
                                                  Truncated(chunkWorkers[w].job.GUID)}
       /\ \A g \in Guids :
            (mainPc = "chunks" /\ chunkDir'[g] # chunkDir[g] /\ mainPc' = "chunks")
               => \E w \in Workers : /\ chunkWorkers[w].pc = "write"
                                      /\ chunkWorkers[w].job.GUID = g
                                      /\ chunkDir'[g] = File(chunkWorkers[w].chunkData)]_vars

C19_Witness ==
    /\ mainPc = "exited"
    /\ onlyDLChunks
    /\ chunkDir["A"] = File(Wire("A")) /\ fetches["A"] = 0
    /\ chunkDir["B"] = File(Wire("B")) /\ fetches["B"] = 1

\* the value of the three characters of packed that start at index i
TripletValue(packed, i) == packed[i] * 100 + packed[i + 1] * 10 + packed[i + 2]

\* C17: decoding the concatenation of the zero-padded three-digit decimal
\* renderings of the bytes of b returns b.
C17_PackedRoundTrip ==
    (pureOp = "pack" /\ pureOut # NoOutput)
        => pureOut = [panic |-> FALSE, isNil |-> FALSE, bytes |-> pureIn]

C17_Witness ==
    /\ pureOp = "pack"
    /\ pureIn = <<255, 9>>
    /\ pureOut # NoOutput
    /\ pureOut.bytes = <<255, 9>>

\* C18: readPackedData of a string whose length is not a multiple of
\* three, or that has a triplet of digits above 255, reports an error and
\* yields no byte array.
C18_MalformedPackedRejected ==
    (/\ pureOp = "readPackedData"
     /\ pureOut # NoOutput
     /\ \/ Len(pureIn) % 3 # 0
        \/ \E t \in 0..((Len(pureIn) \div 3) - 1) :
              /\ \A i \in 1..3 : IsDigit(pureIn[3 * t + i])
              /\ TripletValue(pureIn, 3 * t + 1) > 255)
        => (~pureOut.panic /\ pureOut.isNil /\ pureOut.bytes = <<>>)

\* the header fields of a binary buffer that holds all 41 header bytes
HeaderField(data, first) == LittleEndianUint32(SubSeq(data, first, first + 3))

\* C20: parseManifest of a binary buffer with a full header returns an
\* error and no manifest, before it looks at the body, when the header
\* size field is not 41, when the compressed size field is not the number
\* of bytes after the header, or when the stored-as byte is not 0 or 1.
C20_HeaderChecksBeforeBody ==
    (/\ pureOp = "parseManifest"
     /\ pureOut # NoOutput
     /\ Len(pureIn) >= 41
     /\ pureIn[1] # 123
     /\ \/ HeaderField(pureIn, 5) # U32Of(41)
        \/ HeaderField(pureIn, 13) # U32Of(Len(pureIn) - 41)
        \/ pureIn[37] \notin {0, 1})
        => /\ ~pureOut.panic
           /\ pureOut.err # ""
           /\ ~pureOut.manifest
           /\ pureOut.stage \in {"magic", "header", "format"}

C20_Witness ==
    /\ pureOp = "parseManifest"
    /\ pureOut # NoOutput
    /\ Len(pureIn) = 41 + 34
    /\ HeaderField(pureIn, 1) = ManifestMagic
    /\ HeaderField(pureIn, 5) = U32Of(41)
    /\ HeaderField(pureIn, 13) = U32Of(34)
    /\ pureIn[37] = 2
    /\ pureOut.err = "invalid format"
    /\ ~pureOut.manifest

\* a binary buffer with a full header that passes the magic, header size,
\* compressed size and stored-as checks and whose body can be decompressed
DecodableManifest(data) ==
    /\ Len(data) >= 41
    /\ HeaderField(data, 1) = ManifestMagic
    /\ HeaderField(data, 5) = U32Of(41)
    /\ HeaderField(data, 13) = U32Of(Len(data) - 41)
    /\ data[37] \in {0, 1}
    /\ data[37] = 1 => (Len(data) >= 43 /\ data[42] = 120)

\* its decompressed payload: for stored-as 0 the declared number of bytes
\* (zero-filled past the end of the buffer), for stored-as 1 the inflated body
PayloadOf(data) ==
    LET rest == SubSeq(data, 42, Len(data))
    IN  IF data[37] = 0
        THEN [i \in 1..Int64(HeaderField(data, 9)) |-> IF i <= Len(rest) THEN rest[i] ELSE 0]
        ELSE [i \in 1..(Len(rest) - 2) |-> (rest[i + 1] + 255) % 256]

StoredChecksum(data) == SubSeq(data, 17, 36)

\* C21 as stated: whenever the SHA-1 of the decompressed payload differs
\* from the header checksum, parseManifest returns a checksum-mismatch
\* error and no manifest; a manifest is returned only if the SHA-1 matches.
C21_ChecksumMismatchAlways ==
    (pureOp = "parseManifest" /\ pureOut # NoOutput) =>
        /\ (DecodableManifest(pureIn) /\ Sha1Sum(PayloadOf(pureIn)) # StoredChecksum(pureIn))
              => (pureOut.err = "checksum mismatch" /\ ~pureOut.manifest)
        /\ pureOut.manifest
              => (DecodableManifest(pureIn) /\ Sha1Sum(PayloadOf(pureIn)) = StoredChecksum(pureIn))

\* C21 amended: the checksum-mismatch error is returned whenever the
\* decompressed payload has the declared uncompressed size and its SHA-1
\* differs from the header checksum (a payload of another size is rejected
\* before, as invalid data, also without a manifest); a manifest is
\* returned only if the SHA-1 matches.
C21_ChecksumMismatch ==
    (pureOp = "parseManifest" /\ pureOut # NoOutput) =>
        /\ (DecodableManifest(pureIn) /\ Sha1Sum(PayloadOf(pureIn)) # StoredChecksum(pureIn))
              => /\ ~pureOut.panic /\ ~pureOut.manifest
                 /\ pureOut.err = IF U32Of(Len(PayloadOf(pureIn))) = HeaderField(pureIn, 9)
                                  THEN "checksum mismatch" ELSE "invalid data"
        /\ pureOut.manifest
              => (DecodableManifest(pureIn) /\ Sha1Sum(PayloadOf(pureIn)) = StoredChecksum(pureIn))

C21_Witness ==
    /\ pureOp = "parseManifest"
    /\ pureOut # NoOutput
    /\ DecodableManifest(pureIn)
    /\ pureIn[37] = 1
    /\ U32Of(Len(PayloadOf(pureIn))) = HeaderField(pureIn, 9)
    /\ Len(PayloadOf(pureIn)) = 34
    /\ StoredChecksum(pureIn) = MakeBytes(20)
    /\ pureOut.err = "checksum mismatch"
    /\ ~pureOut.manifest

\* C22: parseManifest of a buffer that starts with '{' and holds a
\* well-formed JSON manifest returns a non-nil Manifest and no error.
C22_JsonManifestDecoded ==
    (pureOp = "parseManifest" /\ pureOut # NoOutput /\ pureIn = <<123, 125>>)
        => (pureOut.manifest /\ pureOut.err = "")

\* the GUID of the job worker w holds
JobGuid(w) == workers[w].job.Chunk.GUID

\* C23: the store step of a worker that fetched a chunk from the network
\* leaves the refcounts alone and inserts the payload exactly when the
\* chunk's refcount, before the worker's own release, is above 1; no
\* other step adds an entry to the cache.
C23_StoreOnlyAboveOne ==
    [][/\ \A w \in Workers :
            (workers[w].pc = "store" /\ workers'[w].pc = "used")
               => /\ chunkParentCount' = chunkParentCount
                  /\ IF chunkParentCount[JobGuid(w)] > 1
                     THEN /\ DOMAIN chunkCache' = DOMAIN chunkCache \cup {JobGuid(w)}
                          /\ Len(chunkCache'[JobGuid(w)]) > 0
                     ELSE chunkCache' = chunkCache
       /\ \A g \in Guids :
            (g \notin DOMAIN chunkCache /\ g \in DOMAIN chunkCache')
               => \E w \in Workers : /\ workers[w].pc = "store"
                                      /\ JobGuid(w) = g
                                      /\ chunkParentCount[g] > 1]_vars

C23_Witness ==
    \E w \in Workers :
        /\ workers[w].pc = "used"
        /\ workers[w].reader.pos = ChunkHeaderSize
        /\ ~chunkDir[JobGuid(w)].exists
        /\ chunkParentCount[JobGuid(w)] = 1
        /\ JobGuid(w) \notin DOMAIN chunkCache
        /\ fetches[JobGuid(w)] = 1

\* the bytes a reader has still to give
Remaining(r) == SubSeq(r.data, r.pos + 1, Len(r.data))

\* C24: every cache entry is the chunk's decompressed payload without the
\* header, and the reader a worker has built, on a hit or on a miss, gives
\* exactly that payload.
C24_CacheHoldsPayload ==
    /\ \A g \in DOMAIN chunkCache : chunkCache[g] = ChunkPayload(g)
    /\ \A w \in Workers :
         workers[w].pc \in {"store", "used", "emit"}
            => Remaining(workers[w].reader) = ChunkPayload(JobGuid(w))

C24_Witness ==
    /\ DOMAIN chunkCache = {"A", "B"}
    /\ \E w, v \in Workers :
         /\ workers[w].pc = "used" /\ JobGuid(w) = "A" /\ workers[w].reader.pos = 0
         /\ workers[v].pc = "used" /\ JobGuid(v) = "B" /\ workers[v].reader.pos = 0

\* the results on their way from a worker to the consumer
InFlight ==
    {results[i] : i \in DOMAIN results}
    \cup {resultsBuffer[i] : i \in DOMAIN resultsBuffer}
    \cup {orderedResults[i] : i \in DOMAIN orderedResults}

C26_OneFileAtATime ==
    mainPc = "loop" =>
        /\ \A w \in Workers : workers[w].pc \in {"idle", "exit"}
        /\ jobs = <<>>
        /\ InFlight = {}

C26_Witness ==
    /\ mainPc = "loop"
    /\ pending # {}
    /\ consumed = 3
    /\ fails > 0
    /\ \E w \in Workers : workers[w].pc = "idle"

\* a job with this id is queued or held by a worker that has not resolved it
Unresolved(i) ==
    \/ \E n \in DOMAIN jobs : jobs[n].ID = i
    \/ \E w \in Workers : workers[w].pc \notin {"idle", "exit", "emit"} /\ workers[w].job.ID = i

C28_CacheThenDirThenNetwork ==
    [][\A w \in Workers :
          /\ (workers[w].pc = "lookup" /\ workers'[w].pc # "lookup")
                => /\ workers'[w].pc = IF JobGuid(w) \in DOMAIN chunkCache THEN "hit" ELSE "fetch"
                   /\ fetches' = fetches
          /\ (workers[w].pc = "hit" /\ workers'[w].pc # "hit")
                => (workers'[w].pc = "used" /\ fetches' = fetches)
          /\ (workers[w].pc = "fetch" /\ workers'[w].pc # "fetch" /\ chunkDir[JobGuid(w)].exists)
                => /\ workers'[w].pc \in {"used", "idle"}
                   /\ fetches' = fetches
                   /\ chunkCache' = chunkCache
                   /\ chunkParentCount' = chunkParentCount
          /\ (workers[w].pc = "fetch" /\ workers'[w].pc = "store")
                => fetches'[JobGuid(w)] = fetches[JobGuid(w)] + 1
          /\ (workers[w].pc = "used" /\ workers'[w].pc = "emit")
                => chunkParentCount'[JobGuid(w)] = chunkParentCount[JobGuid(w)] - 1]_vars

C28_Witness ==
    /\ mainPc = "assemble"
    /\ chunkDir["B"].exists
    /\ chunkPartCount = 3
    /\ consumed = chunkPartCount
    /\ fetches["B"] = 0
    /\ released["B"] = 1
    /\ chunkParentCount["B"] = 1
    /\ "B" \notin DOMAIN chunkCache
    /\ fetches["A"] >= 1

\* C29: the release step of a worker decrements its chunk's refcount by
\* one and sends nothing; a result is sent only by a worker that has
\* released; during an assembly the refcounts change in no other step; and
\* once the consumer has all results of the file no worker is between its
\* release and its send, or before its release.
C29_ReleaseBeforeEmit ==
    [][/\ \A w \in Workers :
            (workers[w].pc = "used" /\ workers'[w].pc = "emit")
               => /\ chunkParentCount' = [chunkParentCount EXCEPT ![JobGuid(w)] = @ - 1]
                  /\ results' = results
       /\ (mainPc = "assemble" /\ Len(results') > Len(results))
            => \E w \in Workers : /\ workers[w].pc = "emit"
                                   /\ workers'[w].pc = "idle"
                                   /\ results' = Append(results, [Job |-> workers[w].job,
                                                                  Reader |-> workers[w].reader])
                                   /\ chunkParentCount' = chunkParentCount
       /\ (mainPc = "assemble" /\ chunkParentCount' # chunkParentCount)
            => \E w \in Workers : workers[w].pc = "used" /\ workers'[w].pc = "emit"
       /\ (mainPc' = "assemble" /\ consumed' = chunkPartCount')
            => \A w \in Workers : workers'[w].pc \in {"idle", "exit"}]_vars

C29_Witness ==
    /\ mainPc = "assemble"
    /\ fileFilter = {"f"}
    /\ consumed = chunkPartCount
    /\ released = [g \in Guids |-> IF g = "A" THEN 2 ELSE 1]
    /\ chunkParentCount = [g \in Guids |-> 0]
    /\ fails > 0

\* the loaded manifests' file lists, by manifest
FileLists == [id \in ManifestIds |-> ManifestOf(id).FileManifestList]

\* the parts that reference g in the files, of every loaded manifest, that
\* pass the filter
SelectedParts(g) ==
    SumSeq([i \in DOMAIN manifests |->
        SumSeq([j \in DOMAIN FileLists[manifests[i]] |->
            LET file == FileLists[manifests[i]][j]
            IN  IF fileFilter = {} \/ file.FileName \in fileFilter
                THEN Cardinality({n \in DOMAIN file.FileChunkParts : file.FileChunkParts[n].GUID = g})
                ELSE 0])])

AssemblyDone ==
    /\ mainPc # "assemble"
    /\ jobsClosed
    /\ consumed = chunkPartCount
    /\ results = <<>>
    /\ \A w \in Workers : workers[w].pc \in {"idle", "exit"}

\* C31: under fair scheduling, with failures that do not go on for ever,
\* every assembly that has begun terminates.
C31_AssemblyTerminates == (mainPc = "assemble") ~> AssemblyDone

\* every assembly that has begun terminates or the process is ended by the
\* runtime
AssemblyTerminatesOrCrashes == (mainPc = "assemble") ~> (AssemblyDone \/ mainPc = "crashed")

\* C32: no goroutine sends on a closed channel: when main closes jobs and
\* results no worker holds a job it could requeue or whose result it could
\* send, no job is queued, and nothing is sent on either channel afterwards.
C32_NoSendOnClosedChannel ==
    [][/\ (mainPc = "assemble" /\ jobsClosed')
            => /\ jobs = <<>> /\ results = <<>>
               /\ \A w \in Workers : workers[w].pc \in {"idle", "exit"}
       /\ (jobsClosed /\ jobsClosed')
            => Len(jobs') <= Len(jobs) /\ Len(results') <= Len(results)
       /\ (mainPc \in {"loop", "assemble", "verify"} /\ mainPc' = "crashed")
            => ~jobsClosed]_vars

\* the channels of a file with a failed attempt are closed and a worker has
\* left its range loop
C32_Witness ==
    /\ jobsClosed /\ mainPc = "loop" /\ cur = FullName("v1", "f")
    /\ fails = MaxFails /\ logged = {}
    /\ consumed = 3
    /\ \E w \in Workers : workers[w].pc = "exit"

\* where job id i of the current file is: queued, held by a worker, or in a
\* result on its way to, or received by, the consumer
QueuedCount(i) == Cardinality({k \in 1..Len(jobs) : jobs[k].ID = i})

HeldCount(i) ==
    Cardinality({w \in Workers : workers[w].pc \notin {"idle", "exit"} /\ workers[w].job.ID = i})

EmittedCount(i) ==
    Cardinality({k \in 1..Len(results) : results[k].Job.ID = i})
    + (IF i \in DOMAIN resultsBuffer THEN 1 ELSE 0)
    + Cardinality({k \in 1..Len(orderedResults) : orderedResults[k].Job.ID = i})
    + Cardinality({k \in 1..Len(received) : received[k] = i})

\* C33: every job id of an assembly is in exactly one place at any time
\* (queued, held, or emitted once), and when the consumer has all parts each
\* id has been emitted exactly once, however many attempts failed.
C33_OneResultPerJob ==
    mainPc = "assemble"
       => /\ \A i \in 0..(chunkPartCount - 1) :
                /\ QueuedCount(i) + HeldCount(i) + EmittedCount(i) = 1
                /\ resultsBuffer # <<>> /\ i \in DOMAIN resultsBuffer
                      => resultsBuffer[i].Job.ID = i
          /\ consumed = chunkPartCount
                => \A i \in 0..(chunkPartCount - 1) : EmittedCount(i) = 1

C33_Witness ==
    /\ mainPc = "assemble" /\ cur = FullName("v1", "f") /\ consumed = 3
    /\ received = <<0, 1, 2>>
    /\ fails = MaxFails /\ logged = {}

\* C34: a worker that found its chunk in the cache under the lock still
\* finds it at the unlocked read: no release of another worker evicts the
\* entry in between.
C34_HitEntryStillPresent ==
    \A w \in Workers : workers[w].pc = "hit" => JobGuid(w) \in DOMAIN chunkCache

\* a worker is between the locked check and the unlocked read of A while the
\* other worker has released A
C34_Witness ==
    \E w, v \in Workers :
       /\ workers[w].pc = "hit" /\ JobGuid(w) = "A"
       /\ workers[v].pc = "emit" /\ JobGuid(v) = "A"
       /\ chunkParentCount["A"] = 1

\* C35: no reference count is negative.
C35_CountsNonNegative ==
    \A g \in DOMAIN chunkParentCount : chunkParentCount[g] >= 0

\* every count has come down to zero, by pre-check releases and by workers
C35_Witness ==
    /\ manifests = <<"m1", "m2">>
    /\ released # <<>> /\ consumed > 0
    /\ DOMAIN chunkParentCount # {}
    /\ \A g \in DOMAIN chunkParentCount : chunkParentCount[g] = 0

\* C36: a send on results or orderedResults never blocks: a worker about to
\* send finds room on results, and the results of a file that are on their
\* way never exceed the capacity partCount of either channel.
C36_SendsNeverBlock ==
    mainPc = "assemble"
       => /\ Len(results) + Cardinality({w \in Workers : workers[w].pc = "emit"})
                <= chunkPartCount
          /\ Len(results) + Cardinality(DOMAIN resultsBuffer) + Len(orderedResults)
                + consumed <= chunkPartCount

\* both channels are full to capacity in turn: every result waits on results
\* but the one a worker is about to send
C36_Witness ==
    /\ mainPc = "assemble" /\ chunkPartCount = 3
    /\ Len(results) = 2
    /\ \E w \in Workers : workers[w].pc = "emit"

\* the id the reorder goroutine forwards next
NextExpected == chunkPartCount - Len(chunkJobs)

\* the results the reorder goroutine has received so far
ReorderReceived == Cardinality(DOMAIN resultsBuffer) + Len(orderedResults) + consumed

\* C37: resultsBuffer holds only results whose id is beyond the next expected
\* id (a result whose id is the next expected one has been forwarded), under
\* its own id; after partCount results the buffer is empty and the cursor is
\* partCount.
C37_ReorderBuffer ==
    mainPc = "assemble"
       => /\ \A i \in DOMAIN resultsBuffer :
                i > NextExpected /\ resultsBuffer[i].Job.ID = i
          /\ ReorderReceived = chunkPartCount
                => DOMAIN resultsBuffer = {} /\ NextExpected = chunkPartCount

\* parts 1 and 2 arrived before part 0 and wait in the buffer
C37_Witness ==
    /\ mainPc = "assemble" /\ chunkPartCount = 3
    /\ NextExpected = 0
    /\ 0 \notin DOMAIN resultsBuffer
    /\ Cardinality(DOMAIN resultsBuffer) = 2
    /\ orderedResults = <<>>

\* the sum of the part sizes of a checkFile input modulo 2^32
SizesSumMod(sizes) ==
    LET lo == SumSeq([i \in DOMAIN sizes |-> sizes[i].lo])
        hi == SumSeq([i \in DOMAIN sizes |-> sizes[i].hi])
    IN  [hi |-> (hi + lo \div 65536) % 65536, lo |-> lo % 65536]

\* C38: checkFile rejects a file without hashing it exactly when the sum of
\* the part sizes modulo 2^32 differs from the on-disk size modulo 2^32, and
\* otherwise returns whether the SHA-1 of the file equals file_hash.
C38_SizeComparedModulo ==
    (pureOp = "checkFile" /\ pureOut # NoOutput)
       => LET same == SizesSumMod(pureIn.sizes) = [hi |-> pureIn.size.hi, lo |-> pureIn.size.lo]
          IN  /\ pureOut.hashed <=> same
              /\ ~same => ~pureOut.equal
              /\ same => (pureOut.equal <=> pureIn.sha1 = pureIn.digest)

\* part sizes 2^32 - 1 and 3 against a file of 2^32 + 2 bytes with the
\* expected digest, given in hex: accepted
C38_Witness ==
    /\ pureOp = "checkFile" /\ pureOut # NoOutput
    /\ pureIn.sizes = <<[hi |-> 65535, lo |-> 65535], [hi |-> 0, lo |-> 3]>>
    /\ pureIn.size = [top |-> 1, hi |-> 0, lo |-> 2]
    /\ pureIn.hex
    /\ pureOut.hashed /\ pureOut.equal

====
